---- MODULE Spec2Model ----
(***************************************************************************)
(* Model of BaseAdapter (packages/base/src/adapter/IAdapter.ts): the       *)
(* adapter status, the chain configuration it owns, the two lifecycle      *)
(* guards, setChainConfig and the chainConfigProxy getter.  The abstract   *)
(* operations init/connect/disconnect, the chain-configuration registry    *)
(* and the error factories live outside the file and are modelled from     *)
(* the specification.                                                      *)
(***************************************************************************)
EXTENDS Integers, Sequences, FiniteSets, TLC

\* ------------------------------------------------------------------ bounds
NumCalls == 2
MaxReads == 2
MaxObj == MaxReads + 2

\* --------------------------------------------------------------- statuses
NOT_READY == "not_ready"
READY == "ready"
CONNECTING == "connecting"
CONNECTED == "connected"
DISCONNECTED == "disconnected"
ERRORED == "errored"
ADAPTER_STATUS == {NOT_READY, READY, CONNECTING, CONNECTED, DISCONNECTED, ERRORED}

\* ------------------------------------------------------------- JS objects
\* A CustomChainConfig object is a map from property names to values; Absent
\* marks a property the object does not have (reads as undefined).
Absent == "<absent>"
Keys == {"chainNamespace", "chainId", "rpcTarget"}
NamespaceArgs == {Absent, "", "eip155", "solana"}
ChainIdArgs == {Absent, "0x1", "0x3"}
RpcArgs == {Absent, "https://custom"}
Tampered == "tampered"
EmptyObj == [k \in Keys |-> Absent]
ConfigArgs == [chainNamespace : NamespaceArgs, chainId : ChainIdArgs, rpcTarget : RpcArgs]

\* JS truthiness of a property value: undefined and "" are falsy.
Truthy(v) == v \notin {Absent, ""}

\* Object spread { ...base, ...over }: own properties of over win.
Spread(base, over) == [k \in Keys |-> IF over[k] # Absent THEN over[k] ELSE base[k]]

\* ------------------------------------------------------- outcomes, errors
Ok == [kind |-> "ok", msg |-> ""]
notReady(msg) == [kind |-> "WalletInitializationError", msg |-> msg]
connectionError(msg) == [kind |-> "WalletLoginError", msg |-> msg]

\* ------------------------------------------------ chain-config registry
DefaultRpc(ns, id) ==
  CASE ns = "eip155" /\ id = "0x1" -> "https://eth-mainnet"
    [] ns = "eip155" /\ id = "0x3" -> "https://eth-ropsten"
    [] ns = "solana" /\ id = "0x1" -> "https://sol-mainnet"
    [] OTHER -> "https://sol-devnet"

getChainConfig(ns, id) ==
  LET finalChainId == IF Truthy(id) THEN id ELSE "0x1"
  IN [chainNamespace |-> ns, chainId |-> finalChainId, rpcTarget |-> DefaultRpc(ns, finalChainId)]

\* ---------------------------------------------------- BaseAdapter methods
\* self is the adapter as the method sees it:
\*   [status, hasConfig (this.chainConfig is not undefined), config]

\* Variants of the methods, each with one slip; used to show that the
\* theorems below depend on the code they are about.
checkConnectionRequirements_NoReadyCheck(self) ==
  IF self.status = CONNECTING THEN connectionError("Already pending connection")
  ELSE IF self.status = CONNECTED THEN connectionError("Already connected")
  ELSE Ok

checkConnectionRequirements_ReadyCheckFirst(self) ==
  IF self.status # READY THEN connectionError("Wallet adapter is not ready yet")
  ELSE IF self.status = CONNECTING THEN connectionError("Already pending connection")
  ELSE IF self.status = CONNECTED THEN connectionError("Already connected")
  ELSE Ok

checkConnectionRequirements_NeedsConfig(self) ==
  IF self.status = CONNECTING THEN connectionError("Already pending connection")
  ELSE IF self.status = CONNECTED THEN connectionError("Already connected")
  ELSE IF self.status # READY \/ ~self.hasConfig THEN connectionError("Wallet adapter is not ready yet")
  ELSE Ok

checkConnectionRequirements(self) ==
  IF self.status = CONNECTING THEN connectionError("Already pending connection")
  ELSE IF self.status = CONNECTED THEN connectionError("Already connected")
  ELSE IF self.status # READY THEN connectionError("Wallet adapter is not ready yet")
  ELSE Ok

checkInitializationRequirements_NoReadyCheck(self) ==
  IF self.status = NOT_READY THEN Ok
  ELSE IF self.status = CONNECTING THEN notReady("Already pending connection")
  ELSE IF self.status = CONNECTED THEN notReady("Already connected")
  ELSE Ok

checkInitializationRequirements_ReadyAlsoPasses(self) ==
  IF self.status \in {NOT_READY, READY} THEN Ok
  ELSE IF self.status = CONNECTING THEN notReady("Already pending connection")
  ELSE IF self.status = CONNECTED THEN notReady("Already connected")
  ELSE Ok

checkInitializationRequirements(self) ==
  IF self.status = NOT_READY THEN Ok
  ELSE IF self.status = CONNECTING THEN notReady("Already pending connection")
  ELSE IF self.status = CONNECTED THEN notReady("Already connected")
  ELSE IF self.status = READY THEN notReady("Adapter is already initialized")
  ELSE Ok

setChainConfig_ThrowsWhenReady(self, customChainConfig) ==
  IF self.status = READY
    THEN [out |-> notReady("Adapter is already initialized"), assigns |-> FALSE, value |-> EmptyObj]
  ELSE IF ~Truthy(customChainConfig.chainNamespace)
    THEN [out |-> notReady("ChainNamespace is required while setting chainConfig"),
          assigns |-> FALSE, value |-> EmptyObj]
  ELSE [out |-> Ok, assigns |-> TRUE,
        value |-> Spread(getChainConfig(customChainConfig.chainNamespace, customChainConfig.chainId),
                         customChainConfig)]

setChainConfig_NoReadyCheck(self, customChainConfig) ==
  IF ~Truthy(customChainConfig.chainNamespace)
    THEN [out |-> notReady("ChainNamespace is required while setting chainConfig"),
          assigns |-> FALSE, value |-> EmptyObj]
  ELSE [out |-> Ok, assigns |-> TRUE,
        value |-> Spread(getChainConfig(customChainConfig.chainNamespace, customChainConfig.chainId),
                         customChainConfig)]

setChainConfig_NoNamespaceCheck(self, customChainConfig) ==
  IF self.status = READY THEN [out |-> Ok, assigns |-> FALSE, value |-> EmptyObj]
  ELSE [out |-> Ok, assigns |-> TRUE,
        value |-> Spread(getChainConfig(customChainConfig.chainNamespace, customChainConfig.chainId),
                         customChainConfig)]

setChainConfig_MergesOverCurrent(self, customChainConfig) ==
  IF self.status = READY THEN [out |-> Ok, assigns |-> FALSE, value |-> EmptyObj]
  ELSE IF ~Truthy(customChainConfig.chainNamespace)
    THEN [out |-> notReady("ChainNamespace is required while setting chainConfig"),
          assigns |-> FALSE, value |-> EmptyObj]
  ELSE [out |-> Ok, assigns |-> TRUE,
        value |-> Spread(Spread(getChainConfig(customChainConfig.chainNamespace, customChainConfig.chainId),
                                self.config),
                         customChainConfig)]

setChainConfig_DefaultsWin(self, customChainConfig) ==
  IF self.status = READY THEN [out |-> Ok, assigns |-> FALSE, value |-> EmptyObj]
  ELSE IF ~Truthy(customChainConfig.chainNamespace)
    THEN [out |-> notReady("ChainNamespace is required while setting chainConfig"),
          assigns |-> FALSE, value |-> EmptyObj]
  ELSE [out |-> Ok, assigns |-> TRUE,
        value |-> Spread(customChainConfig,
                         getChainConfig(customChainConfig.chainNamespace, customChainConfig.chainId))]

setChainConfig_SetOnce(self, customChainConfig) ==
  IF self.status = READY THEN [out |-> Ok, assigns |-> FALSE, value |-> EmptyObj]
  ELSE IF ~Truthy(customChainConfig.chainNamespace)
    THEN [out |-> notReady("ChainNamespace is required while setting chainConfig"),
          assigns |-> FALSE, value |-> EmptyObj]
  ELSE IF self.hasConfig
    THEN [out |-> notReady("chainConfig is already set"), assigns |-> FALSE, value |-> EmptyObj]
  ELSE [out |-> Ok, assigns |-> TRUE,
        value |-> Spread(getChainConfig(customChainConfig.chainNamespace, customChainConfig.chainId),
                         customChainConfig)]

\* Result of setChainConfig: the outcome, whether this.chainConfig is
\* assigned, and the object assigned.
setChainConfig(self, customChainConfig) ==
  IF self.status = READY THEN [out |-> Ok, assigns |-> FALSE, value |-> EmptyObj]
  ELSE IF ~Truthy(customChainConfig.chainNamespace)
    THEN [out |-> notReady("ChainNamespace is required while setting chainConfig"),
          assigns |-> FALSE, value |-> EmptyObj]
  ELSE LET defaultChainConfig == getChainConfig(customChainConfig.chainNamespace, customChainConfig.chainId)
       IN [out |-> Ok, assigns |-> TRUE, value |-> Spread(defaultChainConfig, customChainConfig)]

\* ------------------------------------------------------------------- heap
Refs == 1..MaxObj
Undefined == 0

FreeRef(roots) == CHOOSE r \in Refs \ roots : \A q \in Refs \ roots : r <= q
Collect(h, roots) == [r \in Refs |-> IF r \in roots THEN h[r] ELSE EmptyObj]

chainConfigProxy_ReturnsLive(cfg, h, roots) == [ref |-> cfg, heap |-> h]

\* The getter: a fresh object holding a copy of the properties, or undefined.
chainConfigProxy(cfg, h, roots) ==
  IF cfg # Undefined
    THEN LET n == FreeRef(roots) IN [ref |-> n, heap |-> [h EXCEPT ![n] = Spread(EmptyObj, h[cfg])]]
    ELSE [ref |-> Undefined, heap |-> h]

\* ------------------------------------------------------------------ state
VARIABLES
  status,       \* this.status
  heap,         \* the objects: Refs -> property map
  chainConfig,  \* this.chainConfig: a reference, or Undefined
  held,         \* what chainConfigProxy returned to the caller, in order
  calls,        \* the connect() calls of the application
  last          \* the most recent call and what the adapter was before it

vars == <<status, heap, chainConfig, held, calls, last>>

Callers == 1..NumCalls
IdleCall == [pc |-> "idle", seen |-> NOT_READY, err |-> Ok, provider |-> FALSE, overlap |-> FALSE]
NoPrev == [op |-> "none", sameArg |-> FALSE, status |-> NOT_READY, out |-> Ok]
NoCall == [op |-> "none", arg |-> EmptyObj, status |-> NOT_READY, hadConfig |-> FALSE,
           before |-> EmptyObj, out |-> Ok, prev |-> NoPrev]

HeldRefs == {held[i].ref : i \in 1..Len(held)} \ {Undefined}
Roots == ({chainConfig} \ {Undefined}) \cup HeldRefs

\* The adapter as its methods see it.
This == [status |-> status, hasConfig |-> chainConfig # Undefined,
         config |-> IF chainConfig # Undefined THEN heap[chainConfig] ELSE EmptyObj]

Called(op, arg, out) ==
  [op |-> op, arg |-> arg, status |-> status, hadConfig |-> This.hasConfig,
   before |-> This.config, out |-> out,
   prev |-> [op |-> last.op, sameArg |-> (arg = last.arg), status |-> last.status, out |-> last.out]]

Init ==
  /\ status = NOT_READY
  /\ heap = [r \in Refs |-> EmptyObj]
  /\ chainConfig = Undefined
  /\ held = <<>>
  /\ calls = [c \in Callers |-> IdleCall]
  /\ last = NoCall

\* ------------------------------------------------- calls on the base class
CheckConnection_MarksErrored ==
  LET out == checkConnectionRequirements(This)
  IN /\ last' = Called("checkConnectionRequirements", EmptyObj, out)
     /\ status' = IF out = Ok THEN status ELSE ERRORED
     /\ UNCHANGED <<heap, chainConfig, held, calls>>

CheckConnection ==
  /\ last' = Called("checkConnectionRequirements", EmptyObj, checkConnectionRequirements(This))
  /\ UNCHANGED <<status, heap, chainConfig, held, calls>>

CheckInitialization ==
  /\ last' = Called("checkInitializationRequirements", EmptyObj, checkInitializationRequirements(This))
  /\ UNCHANGED <<status, heap, chainConfig, held, calls>>

SetChainConfig(customChainConfig) ==
  LET r == setChainConfig(This, customChainConfig)
      n == FreeRef(Roots)
  IN /\ last' = Called("setChainConfig", customChainConfig, r.out)
     /\ IF r.assigns
          THEN /\ chainConfig' = n
               /\ heap' = Collect([heap EXCEPT ![n] = r.value], {n} \cup HeldRefs)
               /\ held' = [i \in 1..Len(held) |-> [held[i] EXCEPT !.stale = TRUE]]
          ELSE UNCHANGED <<chainConfig, heap, held>>
     /\ UNCHANGED <<status, calls>>

ReadChainConfigProxy ==
  /\ Len(held) < MaxReads
  /\ LET r == chainConfigProxy(chainConfig, heap, Roots)
     IN /\ heap' = r.heap
        /\ held' = Append(held, [ref |-> r.ref, stale |-> FALSE, tampered |-> FALSE])
  /\ last' = Called("chainConfigProxy", EmptyObj, Ok)
  /\ UNCHANGED <<status, chainConfig, calls>>

\* ------------------------------------------------ the caller of the getter
MutateReturned(i, k) ==
  /\ i \in 1..Len(held)
  /\ held[i].ref # Undefined
  /\ ~held[i].tampered
  /\ heap' = [heap EXCEPT ![held[i].ref][k] = Tampered]
  /\ held' = [j \in 1..Len(held) |->
                IF held[j].ref = held[i].ref THEN [held[j] EXCEPT !.tampered = TRUE] ELSE held[j]]
  /\ last' = Called("mutate", EmptyObj, Ok)
  /\ UNCHANGED <<status, chainConfig, calls>>

ReleaseReturned ==
  /\ held # <<>>
  /\ held' = <<>>
  /\ heap' = Collect(heap, {chainConfig} \ {Undefined})
  /\ last' = Called("release", EmptyObj, Ok)
  /\ UNCHANGED <<status, chainConfig, calls>>

\* --------------------------------- lifecycle operations of an implementation
InitAdapter(autoConnect) ==
  LET out == checkInitializationRequirements(This)
  IN /\ last' = Called("init", EmptyObj, out)
     /\ status' = IF out = Ok THEN (IF autoConnect THEN CONNECTED ELSE READY) ELSE status
     /\ UNCHANGED <<heap, chainConfig, held, calls>>

\* connect() is asynchronous: it calls the guard when it starts and writes
\* CONNECTING in a later step; nothing in the base class joins the two, so
\* other calls may run in between.  overlap records whether another call had
\* passed the guard and was still in flight when this call's guard ran.
PassedGuard(c) == calls[c].pc \in {"checked", "connecting"}

ConnectStart(c) ==
  LET out == checkConnectionRequirements(This)
      overlap == \E d \in Callers \ {c} : PassedGuard(d)
  IN /\ calls[c].pc = "idle"
     /\ last' = Called("connect", EmptyObj, out)
     /\ calls' = [calls EXCEPT ![c] = [pc |-> IF out = Ok THEN "checked" ELSE "rejected",
                                        seen |-> status, err |-> out, provider |-> FALSE,
                                        overlap |-> overlap]]
     /\ UNCHANGED <<status, heap, chainConfig, held>>

ConnectProceed(c) ==
  /\ calls[c].pc = "checked"
  /\ status' = CONNECTING
  /\ calls' = [calls EXCEPT ![c].pc = "connecting", ![c].provider = TRUE]
  /\ last' = Called("connecting", EmptyObj, Ok)
  /\ UNCHANGED <<heap, chainConfig, held>>

ConnectFinish(c, result) ==
  /\ calls[c].pc = "connecting"
  /\ status' = result
  /\ calls' = [calls EXCEPT ![c].pc = IF result = CONNECTED THEN "resolved" ELSE "failed"]
  /\ last' = Called("connected", EmptyObj, Ok)
  /\ UNCHANGED <<heap, chainConfig, held>>

ConnectReturn(c) ==
  /\ calls[c].pc \in {"resolved", "rejected", "failed"}
  /\ calls' = [calls EXCEPT ![c] = IdleCall]
  /\ UNCHANGED <<status, heap, chainConfig, held, last>>

Disconnect ==
  /\ status = CONNECTED
  /\ status' = DISCONNECTED
  /\ last' = Called("disconnect", EmptyObj, Ok)
  /\ UNCHANGED <<heap, chainConfig, held, calls>>

\* One application call at a time: guards, configuration and lifecycle.
Next ==
  \/ CheckConnection
  \/ CheckInitialization
  \/ \E customChainConfig \in ConfigArgs : SetChainConfig(customChainConfig)
  \/ \E autoConnect \in BOOLEAN : InitAdapter(autoConnect)
  \/ ConnectStart(1)
  \/ ConnectProceed(1)
  \/ \E result \in {CONNECTED, ERRORED, READY} : ConnectFinish(1, result)
  \/ ConnectReturn(1)
  \/ Disconnect

Spec == Init /\ [][Next]_vars

\* Several connect() calls in flight against one adapter.
NextConnect ==
  \/ CheckConnection
  \/ \E autoConnect \in BOOLEAN : InitAdapter(autoConnect)
  \/ \E c \in Callers : ConnectStart(c)
  \/ \E c \in Callers : ConnectProceed(c)
  \/ \E c \in Callers, result \in {CONNECTED, ERRORED, READY} : ConnectFinish(c, result)
  \/ \E c \in Callers : ConnectReturn(c)
  \/ Disconnect

SpecConnect == Init /\ [][NextConnect]_vars

\* A caller reading chainConfigProxy and writing to what it got.
ProxyArgs ==
  { [chainNamespace |-> "eip155", chainId |-> Absent, rpcTarget |-> Absent],
    [chainNamespace |-> "solana", chainId |-> "0x3", rpcTarget |-> "https://custom"] }

NextProxy ==
  \/ \E customChainConfig \in ProxyArgs : SetChainConfig(customChainConfig)
  \/ ReadChainConfigProxy
  \/ \E i \in 1..MaxReads, k \in Keys : MutateReturned(i, k)
  \/ ReleaseReturned
  \/ InitAdapter(FALSE)

SpecProxy == Init /\ [][NextProxy]_vars

TypeOK ==
  /\ status \in ADAPTER_STATUS
  /\ chainConfig \in Refs \cup {Undefined}
  /\ Len(held) <= MaxReads

\* Every method of the base class, called in every status the lifecycle
\* reaches.
FrameArgs ==
  ProxyArgs \cup { [chainNamespace |-> Absent, chainId |-> "0x1", rpcTarget |-> Absent] }

NextBase ==
  \/ CheckConnection
  \/ CheckInitialization
  \/ \E customChainConfig \in FrameArgs : SetChainConfig(customChainConfig)
  \/ ReadChainConfigProxy
  \/ ReleaseReturned
  \/ \E autoConnect \in BOOLEAN : InitAdapter(autoConnect)
  \/ ConnectStart(1)
  \/ ConnectProceed(1)
  \/ \E result \in {CONNECTED, ERRORED, READY} : ConnectFinish(1, result)
  \/ ConnectReturn(1)
  \/ Disconnect

SpecBase == Init /\ [][NextBase]_vars

\* ------------------------------------------------------------ properties
GuardCalls == {"checkConnectionRequirements", "connect"}
InitCalls == {"checkInitializationRequirements", "init"}
NamespaceRequired == notReady("ChainNamespace is required while setting chainConfig")
ConfigUnchanged == This.hasConfig = last.hadConfig /\ This.config = last.before
Supplied(obj, k) == obj[k] # Absent

\* C1: checkConnectionRequirements passes exactly when the status is READY;
\* in every other status it raises a login error, and a connect() rejected by
\* the guard has not touched the provider.
C1_ConnectGuardPassesIffReady ==
  /\ last.op \in GuardCalls => (last.out = Ok <=> last.status = READY)
  /\ last.op \in GuardCalls /\ last.status # READY => last.out.kind = "WalletLoginError"
  /\ \A c \in Callers :
       /\ calls[c].pc = "rejected" => calls[c].seen # READY /\ ~calls[c].provider
       /\ calls[c].pc \in {"checked", "connecting", "resolved", "failed"} => calls[c].seen = READY

C1_Witness ==
  /\ calls[1].pc = "rejected"
  /\ calls[1].seen = DISCONNECTED
  /\ ~calls[1].provider
  /\ last.op = "connect"

\* C2: checkInitializationRequirements passes only in NOT_READY; in every
\* other status it raises, and an init() there leaves the status as it was.
C2_InitGuardPassesOnlyWhenNotReady ==
  last.op \in InitCalls /\ last.status # NOT_READY =>
    last.out.kind = "WalletInitializationError" /\ status = last.status

\* C3: of two connect() calls in flight at once against an adapter in READY,
\* exactly one passes checkConnectionRequirements and moves the status to
\* CONNECTING: two calls that have passed the guard are never in flight
\* together, and a call whose guard ran while another call was past the guard
\* failed with "Already pending connection".
C3_OneConnectPassesTheGuard ==
  \A c, d \in Callers : c # d =>
    /\ ~(PassedGuard(c) /\ PassedGuard(d))
    /\ calls[d].overlap /\ calls[d].pc # "idle" =>
         /\ calls[d].pc = "rejected"
         /\ calls[d].err = connectionError("Already pending connection")

\* C4: once the status has left NOT_READY, setChainConfig leaves the chain
\* configuration as it was before the call.
C4_ConfigFrozenAfterInit ==
  last.op = "setChainConfig" /\ last.status # NOT_READY => ConfigUnchanged

\* C5 as stated: setChainConfig in READY fails with an initialization error.
C5_SetChainConfigRejectedWhenReady ==
  last.op = "setChainConfig" /\ last.status = READY => last.out.kind = "WalletInitializationError"

\* C5, amended: setChainConfig in READY raises nothing; it returns normally,
\* whatever its argument.
C5_SetChainConfigReturnsWhenReady ==
  last.op = "setChainConfig" /\ last.status = READY => last.out = Ok

C5_Witness ==
  /\ last.op = "setChainConfig"
  /\ last.status = READY
  /\ last.arg.chainNamespace = "eip155"
  /\ last.hadConfig

\* C6: setChainConfig in READY does not change the chain configuration.
C6_NoMutationWhenReady ==
  last.op = "setChainConfig" /\ last.status = READY => ConfigUnchanged

C6_Witness ==
  /\ last.op = "setChainConfig"
  /\ last.status = READY
  /\ last.hadConfig
  /\ Truthy(last.arg.chainNamespace)
  /\ Spread(getChainConfig(last.arg.chainNamespace, last.arg.chainId), last.arg) # last.before

\* A second accepted setChainConfig before init: the status is NOT_READY (so
\* every earlier call was made in NOT_READY too) and a configuration exists.
SecondSetBeforeInit ==
  /\ last.op = "setChainConfig"
  /\ last.status = NOT_READY
  /\ last.hadConfig
  /\ Truthy(last.arg.chainNamespace)

\* C7 as stated: keys the second call supplies take its value, the others
\* keep the value of the first merge.
C7_SecondCallKeepsFirstMerge ==
  SecondSetBeforeInit =>
    \A k \in Keys : This.config[k] = IF Supplied(last.arg, k) THEN last.arg[k] ELSE last.before[k]

\* C7, amended: keys the second call supplies take its value, the others take
\* the registry default for the second call's (chainNamespace, chainId); the
\* first merge is not retained.
C7_SecondCallReplacesFirstMerge ==
  SecondSetBeforeInit =>
    \A k \in Keys :
      This.config[k] = IF Supplied(last.arg, k) THEN last.arg[k]
                       ELSE getChainConfig(last.arg.chainNamespace, last.arg.chainId)[k]

C7_Witness ==
  /\ SecondSetBeforeInit
  /\ ~Supplied(last.arg, "rpcTarget")
  /\ last.before.rpcTarget = "https://custom"
  /\ This.config.rpcTarget # "https://custom"
  /\ last.before.chainNamespace = last.arg.chainNamespace

\* C8 as stated: without a chainNamespace setChainConfig fails with
\* "ChainNamespace is required while setting chainConfig" in every status and
\* changes nothing.
C8_NamespaceRequiredInEveryStatus ==
  last.op = "setChainConfig" /\ ~Truthy(last.arg.chainNamespace) =>
    last.out = NamespaceRequired /\ ConfigUnchanged

\* C8, amended: without a chainNamespace setChainConfig changes nothing; it
\* fails with that error in every status but READY, and in READY it returns
\* normally.
C8_NamespaceRequiredUnlessReady ==
  last.op = "setChainConfig" /\ ~Truthy(last.arg.chainNamespace) =>
    /\ ConfigUnchanged
    /\ last.status # READY => last.out = NamespaceRequired
    /\ last.status = READY => last.out = Ok

C8_Witness ==
  /\ last.op = "setChainConfig"
  /\ last.arg.chainNamespace = Absent
  /\ last.arg.chainId = "0x3"
  /\ last.status = CONNECTED
  /\ last.hadConfig
  /\ last.out = NamespaceRequired

\* C9: an accepted setChainConfig (status not READY, chainNamespace present)
\* stores, key by key, the supplied value where one is supplied and the
\* registry default for the supplied (chainNamespace, chainId) elsewhere.
C9_StoresMergeOverRegistryDefault ==
  last.op = "setChainConfig" /\ last.status # READY /\ Truthy(last.arg.chainNamespace) =>
    /\ This.hasConfig
    /\ last.out = Ok
    /\ \A k \in Keys :
         This.config[k] = IF Supplied(last.arg, k) THEN last.arg[k]
                          ELSE getChainConfig(last.arg.chainNamespace, last.arg.chainId)[k]

C9_Witness ==
  /\ last.op = "setChainConfig"
  /\ last.status = ERRORED
  /\ last.arg = [chainNamespace |-> "solana", chainId |-> Absent, rpcTarget |-> "https://custom"]
  /\ This.config = [chainNamespace |-> "solana", chainId |-> "0x1", rpcTarget |-> "https://custom"]

\* C10: what chainConfigProxy returns is a copy.  An object it returned, not
\* written to and with no configuration stored since, equals the live
\* configuration (so two such reads are value-equal); it is never the live
\* object nor another returned object; and a write to a returned object
\* leaves the live configuration as it was.
C10_ProxyIsDefensiveCopy ==
  /\ \A i \in 1..Len(held) :
       /\ ~held[i].stale /\ ~held[i].tampered =>
            /\ (held[i].ref = Undefined) = (chainConfig = Undefined)
            /\ held[i].ref # Undefined => heap[held[i].ref] = This.config
       /\ held[i].ref # Undefined => held[i].ref # chainConfig
       /\ \A j \in 1..Len(held) : i # j /\ held[i].ref # Undefined => held[i].ref # held[j].ref
  /\ last.op = "mutate" => ConfigUnchanged

C10_Witness ==
  /\ Len(held) = 2
  /\ held[1].ref # Undefined /\ held[1].tampered /\ ~held[1].stale
  /\ held[2].ref # Undefined /\ ~held[2].tampered /\ ~held[2].stale
  /\ heap[held[1].ref] # heap[held[2].ref]
  /\ last.op = "chainConfigProxy"

\* C11: when checkConnectionRequirements rejects, the error is a login error
\* whose message depends on the status: "Already pending connection" in
\* CONNECTING, "Already connected" in CONNECTED, "Wallet adapter is not ready
\* yet" in NOT_READY, DISCONNECTED and ERRORED.
C11_ConnectGuardMessages ==
  last.op \in GuardCalls /\ last.out # Ok =>
    /\ last.out.kind = "WalletLoginError"
    /\ last.status = CONNECTING => last.out.msg = "Already pending connection"
    /\ last.status = CONNECTED => last.out.msg = "Already connected"
    /\ last.status \in {NOT_READY, DISCONNECTED, ERRORED} =>
         last.out.msg = "Wallet adapter is not ready yet"

C11_Witness ==
  /\ last.op = "checkConnectionRequirements"
  /\ last.status = CONNECTING
  /\ last.out = connectionError("Already pending connection")
  /\ calls[1].pc = "connecting"

\* C12: when checkInitializationRequirements rejects in CONNECTING, CONNECTED
\* or READY, the error is an initialization error with the message "Already
\* pending connection", "Already connected" and "Adapter is already
\* initialized" respectively.
C12_InitGuardMessages ==
  last.op \in InitCalls =>
    /\ last.status = CONNECTING => last.out = notReady("Already pending connection")
    /\ last.status = CONNECTED => last.out = notReady("Already connected")
    /\ last.status = READY => last.out = notReady("Adapter is already initialized")

C12_Witness ==
  /\ last.op = "checkInitializationRequirements"
  /\ last.status = READY
  /\ last.out.kind = "WalletInitializationError"
  /\ last.out.msg = "Adapter is already initialized"

\* Adapters that hold the given status and differ in everything else the
\* class keeps: chain configuration, provider, adapter data.
AdaptersInStatus(st) ==
  [status : {st}, hasConfig : BOOLEAN, config : ConfigArgs,
   provider : {"null", "provider"}, adapterData : {"{}", "data"}]

\* C15: the guards depend on the status alone.  A guard call leaves the chain
\* configuration as it was, and every adapter with the same status, whatever
\* its chain configuration, provider or adapter data, gets the outcome the
\* call had (pass, or the same error kind and message).
C15_GuardsDependOnStatusOnly ==
  /\ last.op = "checkConnectionRequirements" =>
       /\ ConfigUnchanged
       /\ \A a \in AdaptersInStatus(last.status) : checkConnectionRequirements(a) = last.out
  /\ last.op = "checkInitializationRequirements" =>
       /\ ConfigUnchanged
       /\ \A a \in AdaptersInStatus(last.status) : checkInitializationRequirements(a) = last.out

C15_Witness ==
  /\ last.op = "checkConnectionRequirements"
  /\ last.status = READY
  /\ ~last.hadConfig
  /\ last.out = Ok

\* C16: no status lets both guards pass, and in CONNECTING and in CONNECTED
\* both guards reject.
C16_GuardsMutuallyExclusive ==
  /\ ~(checkInitializationRequirements(This) = Ok /\ checkConnectionRequirements(This) = Ok)
  /\ status \in {CONNECTING, CONNECTED} =>
       /\ checkInitializationRequirements(This) # Ok
       /\ checkConnectionRequirements(This) # Ok
  /\ last.op = "checkConnectionRequirements" /\ last.out = Ok =>
       checkInitializationRequirements(This) # Ok
  /\ last.op = "checkInitializationRequirements" /\ last.out = Ok =>
       checkConnectionRequirements(This) # Ok

C16_Witness ==
  /\ last.op = "checkConnectionRequirements"
  /\ last.out = Ok
  /\ status = READY
  /\ checkInitializationRequirements(This) = notReady("Adapter is already initialized")

\* A setChainConfig call that the adapter accepted: it stored a configuration.
AcceptedSet ==
  last.op = "setChainConfig" /\ last.status # READY /\ Truthy(last.arg.chainNamespace)

\* C17: from an adapter without a chain configuration, the stored
\* configuration is unset until a setChainConfig call is accepted; an accepted
\* call stores a configuration whose chainNamespace is the one it was given,
\* every other call leaves the configuration as it was, and a stored
\* configuration always has a non-empty chainNamespace.
C17_StoredNamespaceIsLastAccepted ==
  /\ IF AcceptedSet
       THEN This.hasConfig /\ This.config.chainNamespace = last.arg.chainNamespace
       ELSE ConfigUnchanged
  /\ This.hasConfig => Truthy(This.config.chainNamespace)
  /\ last.op = "none" => ~This.hasConfig

C17_Witness ==
  /\ last.op = "setChainConfig"
  /\ last.status = DISCONNECTED
  /\ last.arg.chainNamespace = ""
  /\ last.hadConfig
  /\ This.config.chainNamespace = "solana"

BaseCalls ==
  {"checkConnectionRequirements", "checkInitializationRequirements", "setChainConfig",
   "chainConfigProxy"}

\* C14: the methods of the base class only read the status: after a call of
\* checkConnectionRequirements, checkInitializationRequirements,
\* setChainConfig or chainConfigProxy, returning or raising, the status is
\* what it was before the call.
C14_BaseCallsKeepStatus ==
  last.op \in BaseCalls => status = last.status

C14_Witness ==
  /\ last.op = "setChainConfig"
  /\ last.out = NamespaceRequired
  /\ status = CONNECTING
  /\ Len(held) = 2

\* C13: init is not idempotent.  From NOT_READY an init() without
\* autoConnect passes the guard and leaves the status READY; an init() issued
\* right after it, the status still READY, is rejected with "Adapter is
\* already initialized" and leaves the status READY.
C13_InitIsNotIdempotent ==
  [][ /\ (status = NOT_READY /\ InitAdapter(FALSE)) => (last'.out = Ok /\ status' = READY)
      /\ (/\ last.op = "init" /\ last.status = NOT_READY /\ status = READY
          /\ \E autoConnect \in BOOLEAN : InitAdapter(autoConnect))
         => (last'.out = notReady("Adapter is already initialized") /\ status' = READY) ]_vars

C13_Witness ==
  /\ last.op = "init"
  /\ last.prev.op = "init"
  /\ last.prev.status = NOT_READY
  /\ last.prev.out = Ok
  /\ last.status = READY
  /\ last.out = notReady("Adapter is already initialized")
  /\ status = READY

\* Two setChainConfig calls in a row with the same argument and no change of
\* status in between.
RepeatedSet ==
  /\ last.op = "setChainConfig"
  /\ last.prev.op = "setChainConfig"
  /\ last.prev.sameArg
  /\ last.prev.status = last.status

\* C18: setChainConfig is idempotent: a second call in a row with the same
\* argument in the same status has the outcome of the first and leaves the
\* chain configuration the first call left.
C18_SetChainConfigIdempotent ==
  RepeatedSet => last.out = last.prev.out /\ ConfigUnchanged

C18_Witness ==
  /\ RepeatedSet
  /\ last.status = NOT_READY
  /\ last.out = Ok
  /\ last.arg = [chainNamespace |-> "eip155", chainId |-> "0x3", rpcTarget |-> Absent]
  /\ This.config.rpcTarget = "https://eth-ropsten"

====
